---- MODULE Spec2Model ----
(***************************************************************************)
(* Multiplayer game-session orchestration of the quiz backend: the lobby   *)
(* state machine of the REST API (api/server/routes/multiplayer_routes.py  *)
(* over common/repositories/lobby_repository.py), the event relay          *)
(* (multiplayer/server/app.py) and the game session engine                 *)
(* (multiplayer/server/socket_handlers/game_events.py, game_handlers.py).  *)
(*                                                                         *)
(* Stores.  `lobby` is the durable lobby document (MongoDB collection      *)
(* multiplayer_lobbies), `session` the durable game-session document       *)
(* (multiplayer_game_sessions), `gs` the ephemeral game state (Redis key   *)
(* game:{code}:state), `xp` the durable XP rows.  One lobby code is        *)
(* modelled, except in SpecCreate, where `collection` counts the documents *)
(* of multiplayer_lobbies per lobby code.  `emitted` is the set of events  *)
(* sent to clients by the engine and the submit handler; `bus` holds the   *)
(* Redis messages the handlers modelled here publish and the relay reads.  *)
(*                                                                         *)
(* Granularity.  A REST or WebSocket handler is executed by a request      *)
(* worker p \in Procs; the API server and the WebSocket server are         *)
(* separate multi-threaded processes, so handlers interleave between       *)
(* their store operations.  An action of a lobby endpoint or of the        *)
(* WebSocket submit handler is one store operation together with the      *)
(* local computation that follows it.  An internal REST call made by the   *)
(* engine (game-session/create, record-auto-fail, finalize) and the REST   *)
(* submit endpoint are taken as one step each.                             *)
(*                                                                         *)
(* Specifications.  SpecLobby: the lobby endpoints, interleaved.           *)
(* SpecLobbySeq: the same, one request at a time.  SpecJoin: join alone.   *)
(* Spec: start, relay, game engine and answer submissions on a lobby that  *)
(* is ready to start.  SpecCreate: create requests, interleaved.           *)
(* SpecScore: the scoring functions applied to pairs of submissions.       *)
(* SpecRest: the REST submit, the auto-fail record and the operations of   *)
(* GameController on the durable session of a started game.  SpecEngine:   *)
(* the engine entered through the declared signature of                    *)
(* start_game_with_countdown, with failing collaborators and WebSocket     *)
(* submissions.  SpecLive: start and relay as the relay makes the call,    *)
(* with weak fairness.  SpecChat: the relay of chat_message events, `chat` *)
(* holding the stored history and the messages fanned out.                 *)
(***************************************************************************)
EXTENDS Integers, Sequences, FiniteSets, TLC

\* ------------------------------------------------------------------ bounds
NumProcs == 2

MaxStarts == 2

NumQuestions == 2

MaxRequests == 3

\* Polls of the answer-collection wait per question (question_timer / 0.5
\* in the program).
PollsPerQuestion == 2

\* The code space (36^6 codes in the program) cut down to a few codes.
NumCodes == 2

\* Chat messages relayed, and relays in which a call to the ephemeral
\* store fails.
MaxChat == 52

MaxFaults == 1

\* -------------------------------------------------------- program constants
MinPlayersToStart == 2

CreateMaxPlayers == 2

QuestionTimer == 10

CreateDifficulty == 2

DefaultQuestionTimer == 30

\* Positional parameters of start_game_with_countdown, and positional
\* arguments the relay passes to it through start_background_task.
StartupParams == 6

RelayArgs == 7

\* chat_messages[-50:]
ChatCap == 50

Users == {"u1", "u2", "u3"}

Procs == 1..NumProcs

\* Python None for an optional integer field of a request body.
None == 0 - 1

VARIABLES lobby, pc, req, loc, res, bus, starts, nreq, serial,
          gs, session, task, xp, acks, finalized, emitted,
          collection, scored, chat

procVars == <<pc, req, loc, res>>

\* The state of the game session engine and of its stores.
gameVars == <<gs, session, task, xp, acks, finalized, emitted>>

\* The lobby collection as a whole and the scores computed: used by the
\* specifications of lobby creation and of scoring.
sideVars == <<collection, scored, chat>>

lobbyVars == <<lobby, bus, starts, serial, gameVars, sideVars>>

\* ------------------------------------------------------- the lobby document
NoLobby ==
    [exists |-> FALSE, creator_id |-> "", players |-> <<>>, max_players |-> 0,
     question_list |-> 0, question_timer |-> 0, difficulty |-> 0, status |-> ""]

Player(u) == [user_id |-> u, ready |-> FALSE, score |-> 0, connected |-> TRUE]

\* LobbyRepository.create_lobby: the creator is the only player, not ready;
\* question_list starts empty and is filled through update_settings.
create_lobby(u, timer, mp) ==
    [exists |-> TRUE, creator_id |-> u, players |-> <<Player(u)>>,
     max_players |-> mp, question_list |-> 0, question_timer |-> timer,
     difficulty |-> CreateDifficulty, status |-> "waiting"]

IsPlayer(l, u) == \E i \in 1..Len(l.players) : l.players[i].user_id = u

\* The array element MongoDB's positional operator `players.$` addresses:
\* the first element matching the query.
FirstIdx(l, u) ==
    CHOOSE i \in 1..Len(l.players) :
        /\ l.players[i].user_id = u
        /\ \A j \in 1..(i - 1) : l.players[j].user_id # u

\* update_one({lobby_code, "players.user_id": u}, {"$set": {"players.$.<f>": v}})
SetPlayerField(l, u, f, v) ==
    IF l.exists /\ IsPlayer(l, u)
    THEN [l EXCEPT !.players[FirstIdx(l, u)] = [@ EXCEPT ![f] = v]]
    ELSE l

\* update_one({lobby_code}, {"$pull": {"players": {"user_id": u}}})
PullPlayer(l, u) ==
    IF l.exists
    THEN [l EXCEPT !.players = SelectSeq(@, LAMBDA pl : pl.user_id # u)]
    ELSE l

\* update_one({lobby_code}, {"$push": {"players": new_player}})
PushPlayer(l, u) ==
    IF l.exists THEN [l EXCEPT !.players = Append(@, Player(u))] ELSE l

\* is_all_players_ready with the test of the ready flags left out.
is_all_players_ready_noflags(l) == l.exists /\ Len(l.players) > 0

is_all_players_ready(l) ==
    /\ l.exists
    /\ Len(l.players) > 0
    /\ \A i \in 1..Len(l.players) : l.players[i].ready

update_lobby_status(l, s) == IF l.exists THEN [l EXCEPT !.status = s] ELSE l

\* ------------------------------------------------- the game-session stores
\* An answer record of player_answers.
Answer(qi, correct, points) ==
    [question_index |-> qi, is_correct |-> correct, points |-> points]

NoAnswers == [u \in Users |-> <<>>]

\* The ephemeral game state (one JSON document under one Redis key).
\* `scores` is player_scores, a dict in insertion order: a sequence of
\* [user_id, score].  A user without a key in player_answers has <<>>.
\* session_id is the id create_game_session returned to the startup task
\* that stored the document (the number of that task).
NoGs ==
    [exists |-> FALSE, session_id |-> 0, idx |-> 0 - 1, total |-> 0,
     scores |-> <<>>, answers |-> NoAnswers]

\* The durable game-session document found by find_one({"lobby_code": code}).
NoSession == [exists |-> FALSE, idx |-> 0 - 1, total |-> 0, answers |-> NoAnswers]

HasKey(d, u) == \E i \in 1..Len(d) : d[i].user_id = u

\* d.get(u, 0)
DictGet(d, u) ==
    IF HasKey(d, u)
    THEN d[CHOOSE i \in 1..Len(d) : d[i].user_id = u].score
    ELSE 0

\* d[u] = v: in place when the key is there, at the end otherwise.
DictSet(d, u, v) ==
    IF HasKey(d, u)
    THEN [i \in 1..Len(d) |-> IF d[i].user_id = u THEN [d[i] EXCEPT !.score = v] ELSE d[i]]
    ELSE Append(d, [user_id |-> u, score |-> v])

HasAnswered(answers, u, qi) ==
    \E i \in 1..Len(answers[u]) : answers[u][i].question_index = qi

\* ------------------------------------------------------- request workers
NoReq ==
    [op |-> "", user |-> "", ready |-> FALSE, mp |-> None, ql |-> None,
     df |-> None, qt |-> None, correct |-> FALSE, time_taken |-> 0]

\* What a handler keeps of the lobby it read first.
Snap(l) ==
    [creator_id |-> l.creator_id, question_list |-> l.question_list,
     question_timer |-> l.question_timer, status |-> l.status]

NoLoc ==
    [snap |-> Snap(NoLobby), newc |-> "", g |-> NoGs, ack |-> Answer(0, FALSE, 0),
     code |-> 0, pub |-> ""]

\* What became of the event a handler had to publish.
Published(up) == IF up THEN "sent" ELSE "failed"

Idle(p) == pc[p] = "idle"

\* A worker takes the next request.  With `serial` set, requests are served
\* one after the other (no request is taken while another is being served).
Begin(p, r) ==
    /\ Idle(p)
    /\ serial => \A q \in Procs : Idle(q)
    /\ nreq < MaxRequests
    /\ nreq' = nreq + 1
    /\ req' = [req EXCEPT ![p] = r]

\* A handler returns: its response is kept until the worker is reused.
Done(p, r, l) ==
    /\ pc' = [pc EXCEPT ![p] = "done"]
    /\ res' = [res EXCEPT ![p] = r]
    /\ loc' = [loc EXCEPT ![p] = l]

Goto(p, s, l) ==
    /\ pc' = [pc EXCEPT ![p] = s]
    /\ loc' = [loc EXCEPT ![p] = l]
    /\ UNCHANGED res

Return(p) ==
    /\ pc[p] = "done"
    /\ pc' = [pc EXCEPT ![p] = "idle"]
    /\ req' = [req EXCEPT ![p] = NoReq]
    /\ loc' = [loc EXCEPT ![p] = NoLoc]
    /\ res' = [res EXCEPT ![p] = ""]
    /\ UNCHANGED <<lobbyVars, nreq>>

\* ---------------------------------------------------------------- join
\* join_lobby, lines 274-283: read the lobby, refuse a stranger once the
\* game has left `waiting`.
JoinGet(p, u) ==
    /\ Begin(p, [NoReq EXCEPT !.op = "join", !.user = u])
    /\ IF ~lobby.exists
       THEN Done(p, "not_found", NoLoc)
       ELSE IF lobby.status # "waiting" /\ ~IsPlayer(lobby, u)
       THEN Done(p, "in_progress", NoLoc)
       ELSE Goto(p, "join_add", NoLoc)
    /\ UNCHANGED lobbyVars

\* add_player_to_lobby, lines 90-114: a second read; the capacity test comes
\* before the membership test.
AddPlayerRead(p) ==
    /\ pc[p] = "join_add"
    /\ IF ~lobby.exists
       THEN Done(p, "not_found", NoLoc)
       ELSE IF Len(lobby.players) >= lobby.max_players
       THEN Done(p, "full", NoLoc)
       ELSE IF IsPlayer(lobby, req[p].user)
       THEN Goto(p, "join_reconnect", NoLoc)
       ELSE Goto(p, "join_push", NoLoc)
    /\ UNCHANGED <<req, nreq, lobbyVars>>

\* add_player_to_lobby, lines 101-105, then the response of join_lobby.
AddPlayerReconnect(p) ==
    /\ pc[p] = "join_reconnect"
    /\ lobby' = SetPlayerField(lobby, req[p].user, "connected", TRUE)
    /\ Done(p, IF lobby.exists THEN "ok" ELSE "error", NoLoc)
    /\ UNCHANGED <<req, nreq, bus, starts, serial, gameVars, sideVars>>

\* add_player_to_lobby, lines 107-123, then the response of join_lobby.
AddPlayerPush(p) ==
    /\ pc[p] = "join_push"
    /\ lobby' = PushPlayer(lobby, req[p].user)
    /\ Done(p, IF lobby.exists THEN "ok" ELSE "error", NoLoc)
    /\ UNCHANGED <<req, nreq, bus, starts, serial, gameVars, sideVars>>

\* ---------------------------------------------------------------- leave
LeaveGet(p, u) ==
    /\ Begin(p, [NoReq EXCEPT !.op = "leave", !.user = u])
    /\ IF ~lobby.exists
       THEN Done(p, "not_found", NoLoc)
       ELSE Goto(p, "leave_pull", [NoLoc EXCEPT !.snap = Snap(lobby)])
    /\ UNCHANGED lobbyVars

\* remove_player_from_lobby, lines 127-133: the $pull.
LeavePull(p) ==
    /\ pc[p] = "leave_pull"
    /\ lobby' = PullPlayer(lobby, req[p].user)
    /\ Goto(p, "leave_reread", loc[p])
    /\ UNCHANGED <<req, nreq, bus, starts, serial, gameVars, sideVars>>

\* LeaveReread promoting the last remaining player instead of the first.
LeaveReread_last(p) ==
    /\ pc[p] = "leave_reread"
    /\ IF ~lobby.exists \/ Len(lobby.players) = 0
       THEN Goto(p, "leave_delete", NoLoc)
       ELSE IF loc[p].snap.creator_id = req[p].user
       THEN Goto(p, "reassign_read",
                 [NoLoc EXCEPT !.newc = lobby.players[Len(lobby.players)].user_id])
       ELSE Done(p, "ok", NoLoc)
    /\ UNCHANGED <<req, nreq, lobbyVars>>

\* remove_player_from_lobby, line 134, and leave_lobby, lines 353-372: the
\* re-read decides between deleting, reassigning the creator and neither.
LeaveReread(p) ==
    /\ pc[p] = "leave_reread"
    /\ IF ~lobby.exists \/ Len(lobby.players) = 0
       THEN Goto(p, "leave_delete", NoLoc)
       ELSE IF loc[p].snap.creator_id = req[p].user
       THEN Goto(p, "reassign_read",
                 [NoLoc EXCEPT !.newc = lobby.players[1].user_id])
       ELSE Done(p, "ok", NoLoc)
    /\ UNCHANGED <<req, nreq, lobbyVars>>

\* delete_lobby, lines 202-205.
LeaveDelete(p) ==
    /\ pc[p] = "leave_delete"
    /\ lobby' = NoLobby
    /\ Done(p, "deleted", NoLoc)
    /\ UNCHANGED <<req, nreq, bus, starts, serial, gameVars, sideVars>>

\* reassign_creator, lines 182-188: read the lobby, find the new creator.
ReassignRead(p) ==
    /\ pc[p] = "reassign_read"
    /\ IF lobby.exists /\ IsPlayer(lobby, loc[p].newc)
       THEN Goto(p, "reassign_write", loc[p])
       ELSE Done(p, "ok", loc[p])
    /\ UNCHANGED <<req, nreq, lobbyVars>>

\* reassign_creator, lines 190-200: the $set of creator_id.
ReassignWrite(p) ==
    /\ pc[p] = "reassign_write"
    /\ lobby' = IF lobby.exists
                THEN [lobby EXCEPT !.creator_id = loc[p].newc]
                ELSE lobby
    /\ Done(p, "ok", loc[p])
    /\ UNCHANGED <<req, nreq, bus, starts, serial, gameVars, sideVars>>

\* ---------------------------------------------------------------- ready
ReadyGet(p, u, r) ==
    /\ Begin(p, [NoReq EXCEPT !.op = "ready", !.user = u, !.ready = r])
    /\ IF ~lobby.exists
       THEN Done(p, "not_found", NoLoc)
       ELSE IF ~IsPlayer(lobby, u)
       THEN Done(p, "not_member", NoLoc)
       ELSE Goto(p, "ready_set", NoLoc)
    /\ UNCHANGED lobbyVars

\* update_player_ready_status, lines 138-147, then the response.
ReadySet(p) ==
    /\ pc[p] = "ready_set"
    /\ lobby' = SetPlayerField(lobby, req[p].user, "ready", req[p].ready)
    /\ Done(p, IF lobby.exists THEN "ok" ELSE "error", NoLoc)
    /\ UNCHANGED <<req, nreq, bus, starts, serial, gameVars, sideVars>>

\* -------------------------------------------------------------- settings
\* update_lobby_settings without the test of the lobby status.
UpdateSettingsGet_nostatus(p, u, mp, ql, df, qt) ==
    /\ Begin(p, [NoReq EXCEPT !.op = "settings", !.user = u, !.mp = mp, !.ql = ql,
                              !.df = df, !.qt = qt])
    /\ IF ~lobby.exists
       THEN Done(p, "not_found", NoLoc)
       ELSE IF lobby.creator_id # u
       THEN Done(p, "forbidden", NoLoc)
       ELSE IF df # None /\ df \notin {1, 2, 3}
       THEN Done(p, "invalid", NoLoc)
       ELSE IF mp # None /\ Len(lobby.players) > mp
       THEN Done(p, "invalid", NoLoc)
       ELSE Goto(p, "settings_set", NoLoc)
    /\ UNCHANGED lobbyVars

\* update_lobby_settings, lines 511-538: creator only, only while waiting,
\* difficulty one of 1, 2, 3, max_players not below the player count.
\* question_timer and the range of max_players are not tested.
UpdateSettingsGet(p, u, mp, ql, df, qt) ==
    /\ Begin(p, [NoReq EXCEPT !.op = "settings", !.user = u, !.mp = mp, !.ql = ql,
                              !.df = df, !.qt = qt])
    /\ IF ~lobby.exists
       THEN Done(p, "not_found", NoLoc)
       ELSE IF lobby.creator_id # u
       THEN Done(p, "forbidden", NoLoc)
       ELSE IF lobby.status # "waiting"
       THEN Done(p, "started", NoLoc)
       ELSE IF df # None /\ df \notin {1, 2, 3}
       THEN Done(p, "invalid", NoLoc)
       ELSE IF mp # None /\ Len(lobby.players) > mp
       THEN Done(p, "invalid", NoLoc)
       ELSE Goto(p, "settings_set", NoLoc)
    /\ UNCHANGED lobbyVars

\* A settings request that names max_players and question_list only.
SettingsGet(p, u, mp, ql) == UpdateSettingsGet(p, u, mp, ql, None, None)

\* LobbyRepository.update_settings, lines 242-263: $set of the given fields.
update_settings(l, mp, ql, df, qt) ==
    IF l.exists
    THEN [l EXCEPT !.max_players = IF mp # None THEN mp ELSE @,
                   !.question_list = IF ql # None THEN ql ELSE @,
                   !.difficulty = IF df # None THEN df ELSE @,
                   !.question_timer = IF qt # None THEN qt ELSE @]
    ELSE l

\* The payload of settings_updated: the lobby as updated.
SettingsUpdated(l) ==
    [type |-> "settings_updated", question_list |-> l.question_list,
     question_timer |-> l.question_timer]

\* update_lobby_settings, lines 543-560: update_settings, then
\* settings_updated is published with the updated lobby (skipped when the
\* event bus does not answer); a lobby deleted meanwhile makes the handler
\* raise before the publish.
SettingsSet(p) ==
    /\ pc[p] = "settings_set"
    /\ lobby' = update_settings(lobby, req[p].mp, req[p].ql, req[p].df, req[p].qt)
    /\ \E up \in BOOLEAN :
          bus' = IF up /\ lobby.exists
                 THEN Append(bus, SettingsUpdated(lobby'))
                 ELSE bus
    /\ Done(p, IF lobby.exists THEN "ok" ELSE "error",
            [NoLoc EXCEPT !.pub = IF ~lobby.exists THEN ""
                                  ELSE IF bus' = bus THEN "failed" ELSE "sent"])
    /\ UNCHANGED <<req, nreq, starts, serial, gameVars, sideVars>>

\* ---------------------------------------------------------------- start
StartsInFlight == Cardinality({q \in Procs : req[q].op = "start" /\ pc[q] # "done"})

\* start_game, lines 615-627: read the lobby; creator only; enough players.
StartGet(p, u) ==
    /\ starts + StartsInFlight < MaxStarts
    /\ Begin(p, [NoReq EXCEPT !.op = "start", !.user = u])
    /\ IF ~lobby.exists
       THEN Done(p, "not_found", NoLoc)
       ELSE IF lobby.creator_id # u
       THEN Done(p, "forbidden", [NoLoc EXCEPT !.snap = Snap(lobby)])
       ELSE IF Len(lobby.players) < MinPlayersToStart
       THEN Done(p, "too_few", [NoLoc EXCEPT !.snap = Snap(lobby)])
       ELSE Goto(p, "start_ready", [NoLoc EXCEPT !.snap = Snap(lobby)])
    /\ UNCHANGED lobbyVars

\* start_game, lines 629-636: is_all_players_ready reads the lobby again;
\* question_list is taken from the first read.
StartAllReady(p) ==
    /\ pc[p] = "start_ready"
    /\ IF ~is_all_players_ready(lobby)
       THEN Done(p, "not_ready", loc[p])
       ELSE IF loc[p].snap.question_list = 0
       THEN Done(p, "no_questions", loc[p])
       ELSE Goto(p, "start_commit", loc[p])
    /\ UNCHANGED <<req, nreq, lobbyVars>>

\* start_game, lines 645-669: status := countdown, then game_starting is
\* published with the lobby as first read.  publish_lobby_event (lines 83-97)
\* skips the publish when the event bus does not answer.
StartCommit(p) ==
    /\ pc[p] = "start_commit"
    /\ lobby' = update_lobby_status(lobby, "countdown")
    /\ \E up \in BOOLEAN :
          bus' = IF up
                 THEN Append(bus, [type |-> "game_starting",
                                   question_list |-> loc[p].snap.question_list,
                                   question_timer |-> loc[p].snap.question_timer])
                 ELSE bus
    /\ starts' = starts + 1
    /\ Done(p, "ok", [loc[p] EXCEPT !.pub = IF bus' = bus THEN "failed" ELSE "sent"])
    /\ UNCHANGED <<req, nreq, serial, gameVars, sideVars>>

\* ------------------------------------------------------------- the relay
Tasks == 1..MaxStarts

\* An engine task: the startup routine and, once spawned, the phase loop.
\* `g` is the copy of the game state the task read last, `qi` the loop index.
NoTask ==
    [pc |-> "none", ql |-> 0, qi |-> 0, n |-> 0, g |-> NoGs, ps |-> <<>>,
     elapsed |-> 0]

\* An event sent to clients by socketio.emit / emit: its name, the startup
\* (session) and question it belongs to, and the keys of its payload.
Event(type, sid, qi, fields) ==
    [type |-> type, sid |-> sid, qi |-> qi, fields |-> fields]

\* start_game_with_countdown, lines 86-90.
GameStarted(sid) ==
    Event("game_started", sid, None, {"session_id", "total_questions", "lobby_code"})

\* run_game_loop, lines 167-175.
QuestionStarted(sid, qi) ==
    Event("question_started", sid, qi,
          {"question", "options", "category", "difficulty", "question_number",
           "total_questions", "time_limit"})

\* end_current_question, lines 320-324.
QuestionEnded(sid, qi) ==
    Event("question_ended", sid, qi, {"correct_answer", "question_index", "standings"})

\* start_game_with_countdown, lines 119-121, and run_game_loop, line 137.
ErrorEvent(sid) ==
    Event("error", sid, None, {"message"})

\* finalize_game (engine), lines 408-411.
GameEnded(sid) ==
    Event("game_ended", sid, None, {"final_standings", "xp_awarded"})

\* handle_submit_answer, lines 133-139.
AnswerRecorded(sid, qi) ==
    Event("answer_recorded", sid, qi,
          {"points_earned", "is_correct", "time_taken", "new_total", "correct_answer"})

\* handle_submit_answer, lines 142-145.
PlayerAnswered(sid, qi) ==
    Event("player_answered", sid, qi, {"user_id", "username"})

\* relay_event_to_room, lines 254-285: a game_starting message is not relayed
\* to the room; it spawns one startup task, whatever ran before.  The task
\* is start_game_with_countdown with the parameters of its signature
\* (lobby_code, countdown_seconds, question_list, question_timer); the call
\* site hands over ai_settings as one more positional argument, which the
\* signature does not take, and which is left out here.
RelayGameStarting(t) ==
    /\ Len(bus) > 0
    /\ Head(bus).type = "game_starting"
    /\ task[t].pc = "none"
    /\ \A j \in 1..(t - 1) : task[j].pc # "none"
    /\ task' = [task EXCEPT ![t] = [NoTask EXCEPT !.pc = "countdown",
                                                 !.ql = Head(bus).question_list]]
    /\ bus' = Tail(bus)
    /\ UNCHANGED <<lobby, starts, serial, nreq, procVars, gs, session, xp, acks, finalized, emitted, sideVars>>

\* relay_event_to_room, lines 254-285, with the call as it is written:
\* start_background_task(start_game_with_countdown, sio, app, lobby_code,
\* countdown_seconds, question_list, question_timer, ai_settings).  A call
\* with more positional arguments than the function has parameters raises
\* TypeError inside the spawned task, before its first statement.
relay_event_to_room(t) ==
    /\ Len(bus) > 0
    /\ Head(bus).type = "game_starting"
    /\ task[t].pc = "none"
    /\ \A j \in 1..(t - 1) : task[j].pc # "none"
    /\ task' = [task EXCEPT ![t] =
                   [NoTask EXCEPT !.pc = IF RelayArgs > StartupParams
                                         THEN "type_error"
                                         ELSE "countdown",
                                  !.ql = Head(bus).question_list]]
    /\ bus' = Tail(bus)
    /\ UNCHANGED <<lobby, starts, serial, nreq, procVars, gs, session, xp, acks, finalized, emitted, sideVars>>

\* ----------------------------------------------------------- game startup
\* create_game_session, lines 710-816, called by start_game_with_countdown
\* after the countdown: the request fails when question_list is empty, the
\* lobby is gone or any question cannot be generated (`gen`); otherwise a
\* session document is inserted with index -1.  Readers use find_one by lobby
\* code, so the document of the first insert stays the one they see.
CreateSession_partial(t, gen) ==
    /\ task[t].pc = "countdown"
    /\ IF task[t].ql > 0 /\ lobby.exists /\ gen
       THEN /\ session' = IF session.exists
                          THEN session
                          ELSE [NoSession EXCEPT !.exists = TRUE, !.total = task[t].ql]
            /\ task' = [task EXCEPT ![t].pc = "store", ![t].n = task[t].ql]
            /\ UNCHANGED emitted
       ELSE /\ task' = [task EXCEPT ![t].pc = "failed"]
            /\ emitted' = emitted \cup {ErrorEvent(t)}
            /\ session' = [NoSession EXCEPT !.exists = TRUE, !.total = task[t].ql]
    /\ UNCHANGED <<lobby, bus, starts, serial, nreq, procVars, gs, xp, acks, finalized, sideVars>>

CreateSession(t, gen) ==
    /\ task[t].pc = "countdown"
    /\ IF task[t].ql > 0 /\ lobby.exists /\ gen
       THEN /\ session' = IF session.exists
                          THEN session
                          ELSE [NoSession EXCEPT !.exists = TRUE, !.total = task[t].ql]
            /\ task' = [task EXCEPT ![t].pc = "store", ![t].n = task[t].ql]
            /\ UNCHANGED emitted
       ELSE /\ task' = [task EXCEPT ![t].pc = "failed"]
            /\ emitted' = emitted \cup {ErrorEvent(t)}
            /\ UNCHANGED session
    /\ UNCHANGED <<lobby, bus, starts, serial, nreq, procVars, gs, xp, acks, finalized, sideVars>>

\* start_game_with_countdown, lines 66-83: player_scores is built from the
\* cached lobby state, which holds no players; the new document has no
\* player_answers and no current_question.
NewGameState(sid, n) ==
    [NoGs EXCEPT !.exists = TRUE, !.session_id = sid, !.total = n]

StoreGameState(t) ==
    /\ task[t].pc = "store"
    /\ gs' = NewGameState(t, task[t].n)
    /\ acks' = <<>>   \* the acknowledgements of answers to this document
    /\ emitted' = emitted \cup {GameStarted(t)}
    /\ task' = [task EXCEPT ![t].pc = "loop_init"]
    /\ UNCHANGED <<lobby, bus, starts, serial, nreq, procVars, session, xp, finalized, sideVars>>

\* ------------------------------------------------------------- game loop
\* run_game_loop, lines 129-138: the questions are read once.
LoopInit(t) ==
    /\ task[t].pc = "loop_init"
    /\ task' = IF ~gs.exists
               THEN [task EXCEPT ![t].pc = "loop_failed"]
               ELSE [task EXCEPT ![t].pc = IF gs.total > 0 THEN "q_fetch" ELSE "fin_read",
                                 ![t].n = gs.total, ![t].qi = 0]
    /\ emitted' = IF ~gs.exists THEN emitted \cup {ErrorEvent(t)} ELSE emitted
    /\ UNCHANGED <<lobby, bus, starts, serial, nreq, procVars, gs, session, xp, acks, finalized, sideVars>>

\* Leaving phase qi: the next phase, or finalize_game after the last one.
NextPhase(tk) ==
    IF tk.qi + 1 < tk.n
    THEN [tk EXCEPT !.pc = "q_fetch", !.qi = tk.qi + 1]
    ELSE [tk EXCEPT !.pc = "fin_read", !.qi = tk.qi + 1]

\* run_game_loop, lines 149-155: the state is read again for each phase; a
\* missing state makes the phase raise, and the loop goes on (lines 216-218).
PhaseFetch(t) ==
    /\ task[t].pc = "q_fetch"
    /\ task' = IF gs.exists
               THEN [task EXCEPT ![t].pc = "q_store", ![t].g = gs]
               ELSE [task EXCEPT ![t] = NextPhase(task[t])]
    /\ UNCHANGED <<lobby, bus, starts, serial, nreq, procVars, gs, session, xp, acks, finalized, emitted, sideVars>>

PhaseFetchFails_abort(t) ==
    /\ task[t].pc = "q_fetch"
    /\ task' = [task EXCEPT ![t].pc = "loop_failed"]
    /\ UNCHANGED <<lobby, bus, starts, serial, nreq, procVars, gs, session, xp, acks, finalized, emitted, sideVars>>

\* run_game_loop, lines 151-154 and 214-217: get_game_state gives None (the
\* key is gone or the store does not answer), the phase raises, the
\* exception is caught and the loop goes on with the next question.
PhaseFetchFails(t) ==
    /\ task[t].pc = "q_fetch"
    /\ task' = [task EXCEPT ![t] = NextPhase(task[t])]
    /\ UNCHANGED <<lobby, bus, starts, serial, nreq, procVars, gs, session, xp, acks, finalized, emitted, sideVars>>

\* run_game_loop, lines 157-164: the document read is written back whole
\* with the index and the question of this phase.
PhaseStore(t) ==
    /\ task[t].pc = "q_store"
    /\ gs' = [task[t].g EXCEPT !.idx = task[t].qi]
    /\ emitted' = emitted \cup {QuestionStarted(t, task[t].qi)}
    /\ task' = [task EXCEPT ![t].pc = "q_wait", ![t].g = NoGs]
    /\ UNCHANGED <<lobby, bus, starts, serial, nreq, procVars, session, xp, acks, finalized, sideVars>>

\* run_game_loop, lines 180-207: player_count comes from the cached lobby
\* state (no players), so the early exit never fires and the phase lasts
\* until the timer expires.
PhaseTimerExpires(t) ==
    /\ task[t].pc = "q_wait"
    /\ task' = [task EXCEPT ![t].pc = "q_end"]
    /\ UNCHANGED <<lobby, bus, starts, serial, nreq, procVars, gs, session, xp, acks, finalized, emitted, sideVars>>

\* get_lobby_state(lobby_code).get('players', []), lines 186-187: the cached
\* lobby state is written by the chat relay alone and holds no players.
CachedPlayers == <<>>

\* run_game_loop, lines 198-201: the players with a record for question qi.
AnsweredCount(g, qi) ==
    Cardinality({u \in Users : HasAnswered(g.answers, u, qi)})

\* run_game_loop, lines 189-206, one turn of the wait: sleep, read the game
\* state, leave when answered_count >= player_count and player_count > 0,
\* or when the polls of the timer are used up.
PhasePoll(t) ==
    /\ task[t].pc = "q_wait"
    /\ LET player_count == Len(CachedPlayers)
           early == /\ gs.exists
                    /\ AnsweredCount(gs, task[t].qi) >= player_count
                    /\ player_count > 0
       IN  task' = IF early \/ task[t].elapsed + 1 >= PollsPerQuestion
                   THEN [task EXCEPT ![t].pc = "q_end", ![t].elapsed = 0]
                   ELSE [task EXCEPT ![t].elapsed = @ + 1]
    /\ UNCHANGED <<lobby, bus, starts, serial, nreq, procVars, gs, session, xp, acks, finalized, emitted, sideVars>>

\* record_auto_fail, lines 1001-1032: nothing without a session, nothing when
\* the player already has a record for the question, else a zero-point record.
record_auto_fail(s, u, qi) ==
    IF ~s.exists \/ HasAnswered(s.answers, u, qi)
    THEN s
    ELSE [s EXCEPT !.answers[u] = Append(@, Answer(qi, FALSE, 0))]

RECURSIVE AutoFailAll(_, _, _)
\* end_current_question, lines 274-290: player_answers_tracking is never
\* filled, so record-auto-fail is requested for every player of the lobby.
AutoFailAll(s, players, qi) ==
    IF players = <<>>
    THEN s
    ELSE AutoFailAll(record_auto_fail(s, Head(players).user_id, qi), Tail(players), qi)

\* end_current_question, lines 242-335: without a game state or a lobby it
\* returns at once; the loop then sleeps and moves on (lines 209-212).
PhaseEnd(t) ==
    /\ task[t].pc = "q_end"
    /\ session' = IF gs.exists /\ lobby.exists
                  THEN AutoFailAll(session, lobby.players, task[t].qi)
                  ELSE session
    /\ emitted' = IF gs.exists /\ lobby.exists
                  THEN emitted \cup {QuestionEnded(t, task[t].qi)}
                  ELSE emitted
    /\ task' = [task EXCEPT ![t] = NextPhase(task[t])]
    /\ UNCHANGED <<lobby, bus, starts, serial, nreq, procVars, gs, xp, acks, finalized, sideVars>>

\* --------------------------------------------------------------- finalize
RECURSIVE FromPlayers(_)
\* {p['user_id']: p.get('score', 0) for p in lobby['players']}
FromPlayers(players) ==
    IF players = <<>>
    THEN <<>>
    ELSE LET last == players[Len(players)]
         IN  DictSet(FromPlayers(SubSeq(players, 1, Len(players) - 1)),
                     last.user_id, last.score)

\* finalize_game (engine), lines 354-368: the lobby is fetched first; without
\* it the task returns.
FinalizeLobby(t) ==
    /\ task[t].pc = "fin_read"
    /\ task' = IF lobby.exists
               THEN [task EXCEPT ![t].pc = "fin_scores", ![t].ps = FromPlayers(lobby.players)]
               ELSE [task EXCEPT ![t].pc = "fin_failed"]
    /\ UNCHANGED <<lobby, bus, starts, serial, nreq, procVars, gs, session, xp, acks, finalized, emitted, sideVars>>

\* finalize_game (engine), lines 355-361 and 414-421: the lobby request is
\* answered with another status than 200 (the task returns), or raises
\* (the task emits an error event).
FinalizeLobbyFails(t, raised) ==
    /\ task[t].pc = "fin_read"
    /\ task' = [task EXCEPT ![t].pc = "fin_failed"]
    /\ emitted' = IF raised THEN emitted \cup {ErrorEvent(t)} ELSE emitted
    /\ UNCHANGED <<lobby, bus, starts, serial, nreq, procVars, gs, session, xp, acks, finalized, sideVars>>

\* finalize_game (engine), lines 370-377: the scores of the game state, or
\* those of the lobby when the game state has none.
FinalizeScores(t) ==
    /\ task[t].pc = "fin_scores"
    /\ task' = [task EXCEPT ![t].pc = "fin_post",
                            ![t].ps = IF gs.exists /\ gs.scores # <<>>
                                      THEN gs.scores
                                      ELSE task[t].ps]
    /\ UNCHANGED <<lobby, bus, starts, serial, nreq, procVars, gs, session, xp, acks, finalized, emitted, sideVars>>

\* sorted(player_scores.items(), key=lambda x: x[1], reverse=True): stable.
InsertRanked(r, e) ==
    LET k == Cardinality({i \in 1..Len(r) : r[i].score >= e.score})
    IN  SubSeq(r, 1, k) \o <<e>> \o SubSeq(r, k + 1, Len(r))

RECURSIVE Ranked(_)
Ranked(d) ==
    IF d = <<>>
    THEN <<>>
    ELSE InsertRanked(Ranked(SubSeq(d, 1, Len(d) - 1)), d[Len(d)])

\* finalize_game (REST), lines 1143-1158: score/10, plus 10 * (players - 1)
\* for the first rank.
XpAwarded(ps) ==
    LET r == Ranked(ps)
        bonus == IF Len(ps) > 1 THEN 10 * (Len(ps) - 1) ELSE 0
    IN  [i \in 1..Len(r) |->
            [user_id |-> r[i].user_id,
             xp |-> (r[i].score \div 10) + (IF i = 1 THEN bonus ELSE 0)]]

XpOf(aw, u) ==
    IF \E i \in 1..Len(aw) : aw[i].user_id = u
    THEN aw[CHOOSE i \in 1..Len(aw) : aw[i].user_id = u].xp
    ELSE 0

\* finalize_game (REST), lines 1160-1178: $inc of total_xp and games_played,
\* add_bonus_xp on the profile, for every player of player_scores.
AwardXp(x, aw) ==
    [u \in Users |->
        IF \E i \in 1..Len(aw) : aw[i].user_id = u
        THEN [total_xp |-> x[u].total_xp + XpOf(aw, u),
              games_played |-> x[u].games_played + 1,
              experience |-> x[u].experience + XpOf(aw, u)]
        ELSE x[u]]

\* finalize_game (engine), lines 385-410, and finalize_game (REST), lines
\* 1133-1203: 404 without the lobby; else XP is awarded, the lobby becomes
\* completed and the response carries xp_awarded.
FinalizePost(t) ==
    /\ task[t].pc = "fin_post"
    /\ IF lobby.exists
       THEN /\ task' = [task EXCEPT ![t].pc = "ended"]
            /\ xp' = AwardXp(xp, XpAwarded(task[t].ps))
            /\ lobby' = update_lobby_status(lobby, "completed")
            /\ finalized' = Append(finalized, XpAwarded(task[t].ps))
            /\ emitted' = emitted \cup {GameEnded(t)}
       ELSE /\ task' = [task EXCEPT ![t].pc = "fin_failed"]
            /\ UNCHANGED <<xp, lobby, finalized, emitted>>
    /\ UNCHANGED <<bus, starts, serial, nreq, procVars, gs, session, acks, sideVars>>

\* finalize_game (engine), lines 394-398 and 414-421: the finalize request
\* is answered with another status than 200 (the task returns), or raises
\* (the task emits an error event).
FinalizePostFails(t, raised) ==
    /\ task[t].pc = "fin_post"
    /\ task' = [task EXCEPT ![t].pc = "fin_failed"]
    /\ emitted' = IF raised THEN emitted \cup {ErrorEvent(t)} ELSE emitted
    /\ UNCHANGED <<lobby, bus, starts, serial, nreq, procVars, gs, session, xp, acks, finalized, sideVars>>

\* ------------------------------------------------- submit_answer (WebSocket)
\* Python round(): to the nearest integer, a tie to the even one.
RoundHalfEven(num, den) ==
    LET q == num \div den
        r == num % den
    IN  IF 2 * r < den THEN q
        ELSE IF 2 * r > den THEN q + 1
        ELSE IF q % 2 = 0 THEN q ELSE q + 1

\* handle_submit_answer, lines 72-82: 100 points for an immediate correct
\* answer, falling linearly to 0 at the timer; 0 for a wrong answer.
PointsEarned(correct, time_taken, timer) ==
    IF correct
    THEN LET m == IF time_taken < timer THEN time_taken ELSE timer
             pts == RoundHalfEven(100 * timer - 100 * m, timer)
         IN  IF pts > 0 THEN pts ELSE 0
    ELSE 0

\* handle_submit_answer, lines 84-104, on the document `g` it read: the
\* score is added and the record appended under the index `g` carries.
RecordAnswer(g, u, correct, points) ==
    [g EXCEPT !.scores = DictSet(g.scores, u, DictGet(g.scores, u) + points),
              !.answers[u] = Append(@, Answer(g.idx, correct, points))]

\* handle_submit_answer, lines 61-104: read the game state; no state, or a
\* state without current_question (before the first phase), is an error.
WsSubmitRead(p, u, correct, time_taken) ==
    /\ Begin(p, [NoReq EXCEPT !.op = "submit", !.user = u, !.correct = correct,
                              !.time_taken = time_taken])
    /\ IF ~gs.exists
       THEN Done(p, "not_found", NoLoc)
       ELSE IF gs.idx < 0
       THEN Done(p, "error", NoLoc)
       ELSE LET pts == PointsEarned(correct, time_taken, QuestionTimer)
            IN  Goto(p, "ws_store",
                     [NoLoc EXCEPT !.g = RecordAnswer(gs, u, correct, pts),
                                   !.ack = Answer(gs.idx, correct, pts)])
    /\ UNCHANGED lobbyVars

\* handle_submit_answer, line 111: the whole document is written back.
WsSubmitStore(p) ==
    /\ pc[p] = "ws_store"
    /\ gs' = loc[p].g
    /\ Goto(p, "ws_ack", loc[p])
    /\ UNCHANGED <<req, nreq, lobby, bus, starts, serial, session, task, xp, acks, finalized, emitted, sideVars>>

\* handle_submit_answer, lines 113-139: the new total is mirrored into the
\* lobby (update_player_score, failures ignored), then answer_recorded is
\* sent to the submitter.
WsSubmitAck(p) ==
    /\ pc[p] = "ws_ack"
    /\ lobby' = SetPlayerField(lobby, req[p].user, "score",
                               DictGet(loc[p].g.scores, req[p].user))
    /\ acks' = Append(acks, [user_id |-> req[p].user,
                             question_index |-> loc[p].ack.question_index,
                             points_earned |-> loc[p].ack.points,
                             new_total |-> DictGet(loc[p].g.scores, req[p].user)])
    /\ emitted' = emitted \cup {AnswerRecorded(loc[p].g.session_id, loc[p].ack.question_index),
                                 PlayerAnswered(loc[p].g.session_id, loc[p].ack.question_index)}
    /\ Done(p, "ok", NoLoc)
    /\ UNCHANGED <<req, nreq, bus, starts, serial, gs, session, task, xp, finalized, sideVars>>

\* ------------------------------------------------------ submit_answer (REST)
RECURSIVE SumPoints(_)
SumPoints(records) ==
    IF records = <<>> THEN 0 ELSE Head(records).points + SumPoints(Tail(records))

\* submit_answer (REST), lines 884-890: 1000 points for an immediate correct
\* answer, falling linearly to 500 at the timer; 0 for a wrong answer.
RestPoints(correct, time_taken, timer) ==
    IF correct
    THEN LET m == IF time_taken < timer THEN time_taken ELSE timer
             pts == (2000 * timer - 1000 * m) \div (2 * timer)
         IN  IF pts > 500 THEN pts ELSE 500
    ELSE 0

\* submit_answer (REST), lines 860-959, taken as one step: the durable
\* session must be in a phase (0 <= current_question_index < len(questions))
\* and must hold no record of the user for that index; then the record is
\* pushed, the total mirrored into the lobby and into player_scores of the
\* game state.  Nothing in the running system writes the durable index after
\* create_game_session set it to -1.  scores_updated is published by
\* redis_client.publish_lobby_event itself (lines 942-946), which raises
\* when the event bus does not answer (`up` false): the handler then answers
\* 500 (lines 962-964); get_game_state returns None in that case.
RestSubmit(p, u, correct, time_taken, up) ==
    /\ Begin(p, [NoReq EXCEPT !.op = "rest_submit", !.user = u, !.correct = correct,
                              !.time_taken = time_taken])
    /\ IF ~session.exists \/ ~lobby.exists
       THEN Done(p, "not_found", NoLoc) /\ UNCHANGED <<session, lobby, gs>>
       ELSE IF session.idx < 0 \/ session.idx >= session.total
       THEN Done(p, "no_active_question", NoLoc) /\ UNCHANGED <<session, lobby, gs>>
       ELSE IF HasAnswered(session.answers, u, session.idx)
       THEN Done(p, "duplicate", NoLoc) /\ UNCHANGED <<session, lobby, gs>>
       ELSE LET pts == RestPoints(correct, time_taken, lobby.question_timer)
                total == SumPoints(session.answers[u]) + pts
            IN  /\ session' = [session EXCEPT !.answers[u] =
                                  Append(@, Answer(session.idx, correct, pts))]
                /\ lobby' = SetPlayerField(lobby, u, "score", total)
                /\ gs' = IF gs.exists /\ up
                         THEN [gs EXCEPT !.scores = DictSet(gs.scores, u, total)]
                         ELSE gs
                /\ Done(p, IF up THEN "ok" ELSE "error",
                        [NoLoc EXCEPT !.pub = Published(up)])
    /\ UNCHANGED <<bus, starts, serial, task, xp, acks, finalized, emitted, sideVars>>

\* ------------------------------------------- durable session operations
\* GameSessionRepository.advance_question, lines 86-101: $inc of
\* current_question_index.  The engine never calls it; it is the only writer
\* of the index the REST submit endpoint tests.  The index is followed up to
\* the number of questions.
advance_question ==
    /\ session.exists
    /\ session.idx < session.total
    /\ session' = [session EXCEPT !.idx = @ + 1]
    /\ UNCHANGED <<procVars, nreq, lobby, bus, starts, serial, gs, task, xp, acks,
                   finalized, emitted, sideVars>>

\* record_auto_fail (route), lines 1001-1032, as a request of its own.
RecordAutoFail(p, u, qi) ==
    /\ Begin(p, [NoReq EXCEPT !.op = "auto_fail", !.user = u, !.ql = qi])
    /\ session' = record_auto_fail(session, u, qi)
    /\ Done(p, IF ~session.exists THEN "not_found"
               ELSE IF HasAnswered(session.answers, u, qi) THEN "skipped"
               ELSE "ok", NoLoc)
    /\ UNCHANGED <<lobby, bus, starts, serial, gs, task, xp, acks, finalized, emitted,
                   sideVars>>

\* GameController.record_auto_fail, lines 129-132: record_player_answer
\* pushes the zero-point record whatever the list holds (update_one by
\* lobby_code, lines 77-84).
ControllerAutoFail(p, u, qi) ==
    /\ Begin(p, [NoReq EXCEPT !.op = "controller_auto_fail", !.user = u, !.ql = qi])
    /\ session' = IF session.exists
                  THEN [session EXCEPT !.answers[u] = Append(@, Answer(qi, FALSE, 0))]
                  ELSE session
    /\ Done(p, "ok", NoLoc)
    /\ UNCHANGED <<lobby, bus, starts, serial, gs, task, xp, acks, finalized, emitted,
                   sideVars>>

\* ------------------------------------------------ finalize (controller)
\* The insertion orders of the keys of player_answers: one per user with a
\* record.
KeyOrders(s) ==
    LET K == {u \in Users : s.answers[u] # <<>>}
    IN  {o \in [1..Cardinality(K) -> K] : \A i, j \in 1..Cardinality(K) : i # j => o[i] # o[j]}

\* get_all_player_scores, lines 121-129: the points of each user's records.
get_all_player_scores(s, order) ==
    IF ~s.exists
    THEN <<>>
    ELSE [i \in 1..Len(order) |->
             [user_id |-> order[i], score |-> SumPoints(s.answers[order[i]])]]

\* difficulty_multipliers {1: 1.0, 2: 1.5, 3: 2.0}, default 1.0, doubled.
DoubleMultiplier(d) ==
    IF d = 2 THEN 3 ELSE IF d = 3 THEN 4 ELSE 2

\* int(score * difficulty_multiplier)
WeightedXp(score, d) == (score * DoubleMultiplier(d)) \div 2

\* UserRepository.update_user_experience has no definition in the
\* repository; it persists the XP it is given to the player's profile.
update_user_experience(x, u, points) ==
    [x EXCEPT ![u].experience = @ + points]

\* award_game_xp, lines 17-37: int(final_score * difficulty_multiplier) is
\* added to the experience of the user.
award_game_xp(x, u, final_score, d) ==
    update_user_experience(x, u, WeightedXp(final_score, d))

\* GameController.finalize_game, lines 152-156 and 165: the XP reported for
\* each rank; int(xp * 1.2) for the first.
ControllerXp(ps, d) ==
    LET r == Ranked(ps)
    IN  [i \in 1..Len(r) |->
            [user_id |-> r[i].user_id,
             xp |-> IF i = 1
                    THEN (WeightedXp(r[i].score, d) * 6) \div 5
                    ELSE WeightedXp(r[i].score, d)]]

\* GameController.finalize_game, lines 158-163: award_game_xp for each
\* ranked player, with the score of the player.
RECURSIVE ControllerAward(_, _, _)
ControllerAward(x, r, d) ==
    IF r = <<>>
    THEN x
    ELSE award_game_xp(ControllerAward(x, SubSeq(r, 1, Len(r) - 1), d),
                       r[Len(r)].user_id, r[Len(r)].score, d)

\* GameController.finalize_game, lines 134-182: without the session or the
\* lobby the subscripts of lines 147 and 150 raise; else every ranked
\* player is awarded, the lobby becomes completed and xp_awarded is
\* returned.
ControllerFinalize(p) ==
    /\ Begin(p, [NoReq EXCEPT !.op = "controller_finalize"])
    /\ IF ~session.exists \/ ~lobby.exists
       THEN /\ Done(p, "error", NoLoc)
            /\ UNCHANGED <<xp, lobby, finalized>>
       ELSE \E order \in KeyOrders(session) :
                LET ps == get_all_player_scores(session, order)
                IN  /\ xp' = ControllerAward(xp, Ranked(ps), lobby.difficulty)
                    /\ lobby' = update_lobby_status(lobby, "completed")
                    /\ finalized' = Append(finalized, ControllerXp(ps, lobby.difficulty))
                    /\ Done(p, "ok", NoLoc)
    /\ UNCHANGED <<bus, starts, serial, gs, session, task, acks, emitted, sideVars>>

\* ------------------------------------------------------------ create lobby
Codes == 1..NumCodes

\* The collection multiplayer_lobbies: the number of documents per lobby_code.
NoCollection == [c \in Codes |-> 0]

\* create_lobby (route), lines 194-211: the settings of the body are tested
\* before anything is stored.
CreateBegin(p, u, df, mp, qt) ==
    /\ Begin(p, [NoReq EXCEPT !.op = "create", !.user = u, !.df = df, !.mp = mp, !.qt = qt])
    /\ IF df \notin {1, 2, 3} THEN Done(p, "invalid", NoLoc)
       ELSE IF mp < 2 \/ mp > 20 THEN Done(p, "invalid", NoLoc)
       ELSE IF qt < 10 \/ qt > 120 THEN Done(p, "invalid", NoLoc)
       ELSE Goto(p, "create_generate", NoLoc)
    /\ UNCHANGED lobbyVars

\* _generate_lobby_code, lines 29-35: a random code `c` is drawn and looked
\* up with find_one; a code in use is drawn again, a free one is returned.
GenerateLobbyCode(p, c) ==
    /\ pc[p] = "create_generate"
    /\ IF collection[c] > 0
       THEN Goto(p, "create_generate", NoLoc)
       ELSE Goto(p, "create_insert", [NoLoc EXCEPT !.code = c])
    /\ UNCHANGED <<req, nreq, lobbyVars>>

\* create_lobby (repository), line 76, under the unique index on lobby_code
\* (ensure_indexes, lines 24-27): insert_one raises DuplicateKeyError when a
\* document with the code exists, and the route answers 500 (lines 240-242);
\* otherwise the document is stored and the route answers 201.
CreateInsert(p) ==
    /\ pc[p] = "create_insert"
    /\ IF collection[loc[p].code] > 0
       THEN /\ Done(p, "error", loc[p])
            /\ UNCHANGED collection
       ELSE /\ collection' = [collection EXCEPT ![loc[p].code] = @ + 1]
            /\ Done(p, "created", loc[p])
    /\ UNCHANGED <<req, nreq, lobby, bus, starts, serial, gameVars, scored, chat>>

\* delete_lobby, lines 202-205: delete_one by lobby_code.
DeleteLobbyDoc(c) ==
    /\ collection[c] > 0
    /\ collection' = [collection EXCEPT ![c] = @ - 1]
    /\ UNCHANGED <<procVars, nreq, lobby, bus, starts, serial, gameVars, scored, chat>>

\* ---------------------------------------------------------------- scoring
\* GameController.calculate_score, lines 113-122: int() truncates the
\* product, which is never negative here.
calculate_score(is_correct, time_taken, timer_duration) ==
    IF ~is_correct
    THEN 0
    ELSE LET m == IF time_taken < timer_duration THEN time_taken ELSE timer_duration
             points == (2000 * timer_duration - 1000 * m) \div (2 * timer_duration)
         IN  IF points > 500 THEN points ELSE 500

\* Two submissions to one question, and the points each was given.
NoScored ==
    [curve |-> "", timer |-> 0, is_correct |-> FALSE,
     t1 |-> 0, t2 |-> 0, p1 |-> None, p2 |-> None]

\* handle_submit_answer, lines 71-81, applied to both submissions.
ScoreWs ==
    /\ scored.curve = ""
    /\ scored' = [scored EXCEPT
                    !.curve = "ws",
                    !.p1 = PointsEarned(scored.is_correct, scored.t1, scored.timer),
                    !.p2 = PointsEarned(scored.is_correct, scored.t2, scored.timer)]
    /\ UNCHANGED <<procVars, nreq, lobby, bus, starts, serial, gameVars, collection, chat>>

\* submit_answer (REST), lines 881-891, applied to both submissions.
ScoreRest ==
    /\ scored.curve = ""
    /\ scored' = [scored EXCEPT
                    !.curve = "rest",
                    !.p1 = RestPoints(scored.is_correct, scored.t1, scored.timer),
                    !.p2 = RestPoints(scored.is_correct, scored.t2, scored.timer)]
    /\ UNCHANGED <<procVars, nreq, lobby, bus, starts, serial, gameVars, collection, chat>>

\* GameController.submit_answer, line 92, applied to both submissions.
ScoreController ==
    /\ scored.curve = ""
    /\ scored' = [scored EXCEPT
                    !.curve = "controller",
                    !.p1 = calculate_score(scored.is_correct, scored.t1, scored.timer),
                    !.p2 = calculate_score(scored.is_correct, scored.t2, scored.timer)]
    /\ UNCHANGED <<procVars, nreq, lobby, bus, starts, serial, gameVars, collection, chat>>

\* --------------------------------------------------------------- chat relay
\* s[-n:]
LastN(s, n) ==
    IF Len(s) <= n THEN s ELSE SubSeq(s, Len(s) - n + 1, Len(s))

\* The chat of a lobby: chat_messages of the lobby state in the ephemeral
\* store; the chat_message events the relay has taken, numbered in arrival
\* order; the messages emitted to the room as new_message; the relays in
\* which a store call failed, and what the last relay met.
NoChat ==
    [history |-> <<>>, arrived |-> 0, fanned |-> <<>>, faults |-> 0, outcome |-> ""]

append_chat_message_oldest(chat_messages, event_data) ==
    IF Len(chat_messages) < ChatCap
    THEN Append(chat_messages, event_data)
    ELSE SubSeq(Append(chat_messages, event_data), 1, ChatCap)

\* relay_event_to_room, lines 296-300: the message is appended and the last
\* 50 are kept.
append_chat_message(chat_messages, event_data) ==
    LastN(Append(chat_messages, event_data), ChatCap)

\* relay_event_to_room, lines 287-312: get_lobby_state answers None when the
\* store cannot be read (the history starts from {}); set_lobby_state
\* answers False when it cannot be written (nothing is stored); the event
\* is emitted to the room after the try block.
relay_chat_message(read_ok, write_ok) ==
    /\ chat.arrived < MaxChat
    /\ chat.faults + (IF read_ok /\ write_ok THEN 0 ELSE 1) <= MaxFaults
    /\ LET event_data == chat.arrived + 1
           chat_messages == IF read_ok THEN chat.history ELSE <<>>
       IN  chat' = [history |-> IF write_ok
                                THEN append_chat_message(chat_messages, event_data)
                                ELSE chat.history,
                    arrived |-> event_data,
                    fanned |-> Append(chat.fanned, event_data),
                    faults |-> chat.faults + (IF read_ok /\ write_ok THEN 0 ELSE 1),
                    outcome |-> IF ~write_ok THEN "write_failed"
                                ELSE IF ~read_ok THEN "read_failed"
                                ELSE "stored"]
    /\ UNCHANGED <<procVars, nreq, lobby, bus, starts, serial, gameVars, collection, scored>>

\* handle_join_room, lines 56-64: the chat_history of room_joined.
handle_join_room(chat_messages) == LastN(chat_messages, ChatCap)

\* ------------------------------------------------------------ initial states
NoXp == [u \in Users |-> [total_xp |-> 0, games_played |-> 0, experience |-> 0]]

InitGame ==
    /\ gs = NoGs
    /\ session = NoSession
    /\ task = [t \in Tasks |-> NoTask]
    /\ xp = NoXp
    /\ acks = <<>>
    /\ finalized = <<>>
    /\ emitted = {}
    /\ collection = NoCollection
    /\ scored = NoScored
    /\ chat = NoChat

\* ------------------------------------------------------ lobby specification
InitProcs ==
    /\ pc = [p \in Procs |-> "idle"]
    /\ req = [p \in Procs |-> NoReq]
    /\ loc = [p \in Procs |-> NoLoc]
    /\ res = [p \in Procs |-> ""]

\* Lobbies in `waiting` that create, join, ready and update_settings lead to:
\* u1 created the lobby, u2 may have joined, each may be ready, and the
\* question plan may have been set.
WaitingLobbies ==
    { [create_lobby("u1", QuestionTimer, CreateMaxPlayers) EXCEPT
          !.players = [i \in 1..n |->
                          [Player(IF i = 1 THEN "u1" ELSE "u2") EXCEPT !.ready = rd[i]]],
          !.question_list = ql] :
        n \in {1, 2}, rd \in [1..2 -> BOOLEAN], ql \in {0, NumQuestions} }

InitLobby ==
    /\ lobby \in WaitingLobbies
    /\ bus = <<>>
    /\ starts = 0
    /\ nreq = 0
    /\ serial = FALSE
    /\ InitProcs
    /\ InitGame

InitLobbySeq ==
    /\ lobby \in WaitingLobbies
    /\ bus = <<>>
    /\ starts = 0
    /\ nreq = 0
    /\ serial = TRUE
    /\ InitProcs
    /\ InitGame

MaxPlayersInputs == {None, 1, 2, 3}

QuestionListInputs == {None, 0, NumQuestions}

NextLobby ==
    \E p \in Procs :
        \/ \E u \in Users : JoinGet(p, u)
        \/ AddPlayerRead(p)
        \/ AddPlayerReconnect(p)
        \/ AddPlayerPush(p)
        \/ \E u \in Users : LeaveGet(p, u)
        \/ LeavePull(p)
        \/ LeaveReread(p)
        \/ LeaveDelete(p)
        \/ ReassignRead(p)
        \/ ReassignWrite(p)
        \/ \E u \in Users, r \in BOOLEAN : ReadyGet(p, u, r)
        \/ ReadySet(p)
        \/ \E u \in Users, mp \in MaxPlayersInputs, ql \in QuestionListInputs :
              SettingsGet(p, u, mp, ql)
        \/ SettingsSet(p)
        \/ \E u \in Users : StartGet(p, u)
        \/ StartAllReady(p)
        \/ StartCommit(p)
        \/ Return(p)

vars == <<lobby, pc, req, loc, res, bus, starts, nreq, serial, gameVars, sideVars>>

SpecLobby == InitLobby /\ [][NextLobby]_vars

\* The same handlers, the requests served one after the other.
SpecLobbySeq == InitLobbySeq /\ [][NextLobby]_vars

\* Join requests alone, interleaved.
NextJoin ==
    \E p \in Procs :
        \/ \E u \in Users : JoinGet(p, u)
        \/ AddPlayerRead(p)
        \/ AddPlayerReconnect(p)
        \/ AddPlayerPush(p)
        \/ Return(p)

SpecJoin == InitLobby /\ [][NextJoin]_vars

\* ------------------------------------------------------- game specification
\* A lobby ready to be started: creator u1 and u2, both ready, questions set.
ReadyLobby ==
    [create_lobby("u1", QuestionTimer, CreateMaxPlayers) EXCEPT
        !.players = <<[Player("u1") EXCEPT !.ready = TRUE],
                      [Player("u2") EXCEPT !.ready = TRUE]>>,
        !.question_list = NumQuestions]

Init ==
    /\ lobby = ReadyLobby
    /\ bus = <<>>
    /\ starts = 0
    /\ nreq = 0
    /\ serial = FALSE
    /\ InitProcs
    /\ InitGame

TimeTakenInputs == {0, 5}

GamePlayers == {"u1", "u2"}

Next ==
    \/ \E p \in Procs :
          \/ StartGet(p, "u1")
          \/ StartAllReady(p)
          \/ StartCommit(p)
          \/ \E u \in GamePlayers, c \in BOOLEAN, tt \in TimeTakenInputs :
                WsSubmitRead(p, u, c, tt)
          \/ WsSubmitStore(p)
          \/ WsSubmitAck(p)
          \/ \E u \in GamePlayers, c \in BOOLEAN, tt \in TimeTakenInputs, up \in BOOLEAN :
                RestSubmit(p, u, c, tt, up)
          \/ Return(p)
    \/ \E t \in Tasks :
          \/ RelayGameStarting(t)
          \/ \E gen \in BOOLEAN : CreateSession(t, gen)
          \/ StoreGameState(t)
          \/ LoopInit(t)
          \/ PhaseFetch(t)
          \/ PhaseStore(t)
          \/ PhaseTimerExpires(t)
          \/ PhaseEnd(t)
          \/ FinalizeLobby(t)
          \/ FinalizeScores(t)
          \/ FinalizePost(t)

Spec == Init /\ [][Next]_vars

\* ------------------------------------------------- creation specification
\* Bodies of create requests: the defaults, and one value outside each range.
CreateInputs ==
    { <<CreateDifficulty, CreateMaxPlayers, QuestionTimer>>,
      <<0, CreateMaxPlayers, QuestionTimer>>,
      <<CreateDifficulty, 1, QuestionTimer>>,
      <<CreateDifficulty, 21, QuestionTimer>>,
      <<CreateDifficulty, CreateMaxPlayers, 9>>,
      <<CreateDifficulty, CreateMaxPlayers, 121>> }

InitCreate ==
    /\ lobby = NoLobby
    /\ bus = <<>>
    /\ starts = 0
    /\ nreq = 0
    /\ serial = FALSE
    /\ InitProcs
    /\ InitGame

NextCreate ==
    \/ \E p \in Procs :
          \/ \E u \in Users, b \in CreateInputs : CreateBegin(p, u, b[1], b[2], b[3])
          \/ \E c \in Codes : GenerateLobbyCode(p, c)
          \/ CreateInsert(p)
          \/ Return(p)
    \/ \E c \in Codes : DeleteLobbyDoc(c)

SpecCreate == InitCreate /\ [][NextCreate]_vars

\* -------------------------------------------------- scoring specification
ScoreTimers == {QuestionTimer, DefaultQuestionTimer}

\* time_taken comes from the client as sent: any number.
ScoreTimes(timer) == (0 - 2)..(timer + 2)

InitScore ==
    /\ lobby = NoLobby
    /\ bus = <<>>
    /\ starts = 0
    /\ nreq = 0
    /\ serial = FALSE
    /\ InitProcs
    /\ gs = NoGs
    /\ session = NoSession
    /\ task = [t \in Tasks |-> NoTask]
    /\ xp = NoXp
    /\ acks = <<>>
    /\ finalized = <<>>
    /\ emitted = {}
    /\ collection = NoCollection
    /\ chat = NoChat
    /\ \E tm \in ScoreTimers, c \in BOOLEAN :
          \E a \in ScoreTimes(tm), b \in ScoreTimes(tm) :
             scored = [NoScored EXCEPT !.timer = tm, !.is_correct = c,
                                       !.t1 = a, !.t2 = b]

NextScore == ScoreWs \/ ScoreRest \/ ScoreController

SpecScore == InitScore /\ [][NextScore]_vars

\* ------------------------------------------------------ chat specification
InitChat ==
    /\ lobby = ReadyLobby
    /\ bus = <<>>
    /\ starts = 0
    /\ nreq = 0
    /\ serial = FALSE
    /\ InitProcs
    /\ InitGame

NextChat == \E read_ok \in BOOLEAN, write_ok \in BOOLEAN : relay_chat_message(read_ok, write_ok)

SpecChat == InitChat /\ [][NextChat]_vars

\* ------------------------------------- durable-session specification
\* The state start_game_with_countdown leaves behind when it spawns the
\* loop: session inserted, game state stored, game_started emitted.
InitRest ==
    /\ lobby = update_lobby_status(ReadyLobby, "countdown")
    /\ bus = <<>>
    /\ starts = 1
    /\ nreq = 0
    /\ serial = FALSE
    /\ InitProcs
    /\ gs = NewGameState(1, NumQuestions)
    /\ session = [NoSession EXCEPT !.exists = TRUE, !.total = NumQuestions]
    /\ task = [t \in Tasks |->
                 IF t = 1
                 THEN [NoTask EXCEPT !.pc = "loop_init", !.ql = NumQuestions,
                                     !.n = NumQuestions]
                 ELSE NoTask]
    /\ xp = NoXp
    /\ acks = <<>>
    /\ finalized = <<>>
    /\ emitted = {GameStarted(1)}
    /\ collection = NoCollection
    /\ scored = NoScored
    /\ chat = NoChat

NextRest ==
    \/ advance_question
    \/ \E p \in Procs :
          \/ \E u \in GamePlayers, c \in BOOLEAN, tt \in TimeTakenInputs, up \in BOOLEAN :
                RestSubmit(p, u, c, tt, up)
          \/ \E u \in GamePlayers, qi \in 0..(NumQuestions - 1) : RecordAutoFail(p, u, qi)
          \/ \E u \in GamePlayers, qi \in 0..(NumQuestions - 1) : ControllerAutoFail(p, u, qi)
          \/ ControllerFinalize(p)
          \/ Return(p)

SpecRest == InitRest /\ [][NextRest]_vars

\* ------------------------------------------------- engine specification
\* The lobby after a successful start: status countdown, game_starting on
\* the bus, the start request counted.
InitEngine ==
    /\ lobby = update_lobby_status(ReadyLobby, "countdown")
    /\ bus = <<[type |-> "game_starting", question_list |-> NumQuestions,
                question_timer |-> QuestionTimer]>>
    /\ starts = 1
    /\ nreq = 1
    /\ serial = FALSE
    /\ InitProcs
    /\ InitGame

\* One startup and its loop, the wait taken poll by poll, with answers
\* submitted over the WebSocket; the store and the API may fail to answer.
NextEngine ==
    \/ \E p \in Procs :
          \/ \E u \in GamePlayers, c \in BOOLEAN : WsSubmitRead(p, u, c, 0)
          \/ WsSubmitStore(p)
          \/ WsSubmitAck(p)
          \/ Return(p)
    \/ \E t \in Tasks :
          \/ RelayGameStarting(t)
          \/ \E gen \in BOOLEAN : CreateSession(t, gen)
          \/ StoreGameState(t)
          \/ LoopInit(t)
          \/ PhaseFetch(t)
          \/ PhaseFetchFails(t)
          \/ PhaseStore(t)
          \/ PhasePoll(t)
          \/ PhaseEnd(t)
          \/ FinalizeLobby(t)
          \/ \E raised \in BOOLEAN : FinalizeLobbyFails(t, raised)
          \/ FinalizeScores(t)
          \/ FinalizePost(t)
          \/ \E raised \in BOOLEAN : FinalizePostFails(t, raised)

SpecEngine == InitEngine /\ [][NextEngine]_vars

\* --------------------------------------------- start-to-end specification
\* The start request and the relay's call as written, every enabled step
\* eventually taken.
NextLive ==
    \/ \E p \in Procs :
          \/ StartGet(p, "u1")
          \/ StartAllReady(p)
          \/ StartCommit(p)
          \/ Return(p)
    \/ \E t \in Tasks : relay_event_to_room(t)

SpecLive ==
    /\ Init
    /\ [][NextLive]_vars
    /\ \A p \in Procs : WF_vars(StartAllReady(p) \/ StartCommit(p) \/ Return(p))
    /\ \A t \in Tasks : WF_vars(relay_event_to_room(t))

\* ------------------------------------------------------------------ C1
CountRecords(records, qi) ==
    Cardinality({i \in 1..Len(records) : records[i].question_index = qi})

\* C1: player_answers, in the game state and in the durable session, holds at
\* most one record per user and question index.
C1_OneAnswerPerQuestion ==
    \A u \in Users, qi \in 0..(NumQuestions - 1) :
        /\ CountRecords(gs.answers[u], qi) <= 1
        /\ CountRecords(session.answers[u], qi) <= 1

\* ------------------------------------------------------------------ C2
RECURSIVE AckedPoints(_, _)
AckedPoints(as, u) ==
    IF as = <<>>
    THEN 0
    ELSE (IF Head(as).user_id = u THEN Head(as).points_earned ELSE 0)
         + AckedPoints(Tail(as), u)

\* C2: every submission acknowledged since the game state was created still
\* has its record in player_answers of the game state, and player_scores
\* still includes the points of all acknowledged submissions of the user.
C2_AckedNeverLost ==
    \A i \in 1..Len(acks) :
        LET a == acks[i]
        IN  /\ gs.exists
            /\ \E j \in 1..Len(gs.answers[a.user_id]) :
                  /\ gs.answers[a.user_id][j].question_index = a.question_index
                  /\ gs.answers[a.user_id][j].points = a.points_earned
            /\ DictGet(gs.scores, a.user_id) >= AckedPoints(acks, a.user_id)

\* ------------------------------------------------------------------ C3
LoopPcs ==
    {"loop_init", "q_fetch", "q_store", "q_wait", "q_end",
     "fin_read", "fin_scores", "fin_post"}

PhasePcs == {"q_wait", "q_end"}

\* C3: at most one game loop runs for the lobby, and at most one question
\* phase is active.
C3_AtMostOneLoop ==
    /\ Cardinality({t \in Tasks : task[t].pc \in LoopPcs}) <= 1
    /\ Cardinality({t \in Tasks : task[t].pc \in PhasePcs}) <= 1

\* ------------------------------------------------------------------ C4
AfterLoop(t) == task[t].pc \in {"fin_read", "fin_scores", "fin_post", "ended", "fin_failed"}

\* C4: current_question_index of the game state of a session is -1 when the
\* state is created, never decreases afterwards, and equals the number of
\* questions once a loop has gone through all phases.
C4_QuestionIndex ==
    [][/\ (~gs.exists /\ gs'.exists) => gs'.idx = 0 - 1
       /\ (gs.exists /\ gs'.exists /\ gs'.session_id = gs.session_id) =>
              gs'.idx >= gs.idx
       /\ \A t \in Tasks :
             (~AfterLoop(t) /\ AfterLoop(t)') => gs'.idx = gs'.total]_vars

\* ------------------------------------------------------------------ C5
Acked(u, qi) ==
    \E i \in 1..Len(acks) : acks[i].user_id = u /\ acks[i].question_index = qi

\* One record per lobby player and question: the submitted answer when one
\* was acknowledged, a zero-point incorrect record otherwise.
CompleteAnswers(answers, n) ==
    \A k \in 1..Len(lobby.players), qi \in 0..(n - 1) :
        LET u == lobby.players[k].user_id
        IN  /\ CountRecords(answers[u], qi) = 1
            /\ \A j \in 1..Len(answers[u]) :
                  answers[u][j].question_index = qi =>
                      IF Acked(u, qi)
                      THEN \E i \in 1..Len(acks) :
                              /\ acks[i].user_id = u
                              /\ acks[i].question_index = qi
                              /\ acks[i].points_earned = answers[u][j].points
                      ELSE answers[u][j] = Answer(qi, FALSE, 0)

\* C5: once a loop has gone through its n phases, player_answers (of the
\* game state or of the durable session) holds for every lobby player and
\* every index 0..n-1 exactly one record, the real answer or an auto-fail.
C5_CompleteAnswers ==
    \A t \in Tasks :
        (AfterLoop(t) /\ lobby.exists) =>
            \/ CompleteAnswers(gs.answers, task[t].n)
            \/ CompleteAnswers(session.answers, task[t].n)

\* ------------------------------------------------------------------ C6
\* C6: a finalize call after the first one for the lobby leaves total_xp,
\* games_played and the profile experience of every player as they were.
C6_FinalizeIdempotent ==
    [][(Len(finalized) >= 1 /\ Len(finalized') > Len(finalized)) => xp' = xp]_vars

\* ------------------------------------------------------------------ C7
StartAllowed(l, u) ==
    /\ l.exists
    /\ l.creator_id = u
    /\ Len(l.players) >= MinPlayersToStart
    /\ \A i \in 1..Len(l.players) : l.players[i].ready
    /\ l.question_list > 0

GameStarting(l) ==
    [type |-> "game_starting", question_list |-> l.question_list,
     question_timer |-> l.question_timer]

C8_CapacityAndUnique ==
    lobby.exists =>
        /\ Len(lobby.players) <= lobby.max_players
        /\ \A i, j \in 1..Len(lobby.players) :
              lobby.players[i].user_id = lobby.players[j].user_id => i = j

\* ------------------------------------------------------------------ C9
\* C9: while the lobby exists, exactly one player has the creator's user_id.
C9_ExactlyOneCreator ==
    lobby.exists =>
        Cardinality({i \in 1..Len(lobby.players) :
                       lobby.players[i].user_id = lobby.creator_id}) = 1

\* ------------------------------------------------------------------ C10
StatusRank(st) ==
    CASE st = "waiting" -> 0
      [] st = "countdown" -> 1
      [] st = "in_progress" -> 2
      [] st = "completed" -> 3
      [] OTHER -> 0 - 1

\* C10: while the lobby is not deleted its status never moves back along
\* waiting -> countdown -> in_progress -> completed.
C10_StatusForward ==
    [][(lobby.exists /\ lobby'.exists) =>
           StatusRank(lobby'.status) >= StatusRank(lobby.status)]_vars

\* ------------------------------------------------------------------ C11
\* C11: when the creator leaves, with no other request served meanwhile, and
\* players remain, the leave reassigns the creator: the players left are
\* players of the list before the leave, and when the leave returns the
\* stored creator_id is the returned new_creator_id, it is the first
\* remaining player, not the leaver, and exactly one player carries it.
C11_CreatorReassigned ==
    [][\A p \in Procs :
          /\ (pc[p] = "leave_pull" /\ pc'[p] = "leave_reread") =>
                 \A i \in 1..Len(lobby'.players) :
                     IsPlayer(lobby, lobby'.players[i].user_id)
          /\ (pc[p] = "leave_reread" /\ pc'[p] # "leave_reread"
                 /\ lobby.exists /\ Len(lobby.players) > 0
                 /\ lobby.creator_id = req[p].user) =>
                 pc'[p] = "reassign_read"
          /\ (pc[p] \in {"reassign_read", "reassign_write"} /\ pc'[p] = "done") =>
                 /\ res'[p] = "ok"
                 /\ lobby'.exists
                 /\ lobby'.creator_id = loc'[p].newc
                 /\ lobby'.creator_id = lobby'.players[1].user_id
                 /\ lobby'.creator_id # req[p].user
                 /\ Cardinality({i \in 1..Len(lobby'.players) :
                        lobby'.players[i].user_id = lobby'.creator_id}) = 1]_vars

C11_Witness ==
    \E p \in Procs :
        /\ pc[p] = "done" /\ req[p].op = "leave" /\ res[p] = "ok"
        /\ req[p].user = "u1"
        /\ loc[p].newc = "u2"
        /\ lobby.creator_id = "u2"
        /\ Len(lobby.players) = 2

\* ------------------------------------------------------------------ C12
\* C12: a leave that finds no player left deletes the lobby and returns
\* deleted, and the lobby record is deleted only while it holds no player.
C12_DeleteOnlyWhenEmpty ==
    [][/\ (lobby.exists /\ ~lobby'.exists) => Len(lobby.players) = 0
       /\ \A p \in Procs :
             (pc[p] = "leave_delete" /\ pc'[p] = "done") =>
                 res'[p] = "deleted" /\ ~lobby'.exists]_vars

\* ------------------------------------------------------------------ C13
JoinReturns(p) == pc[p] # "done" /\ pc'[p] = "done" /\ req'[p].op = "join"

\* C13: a join by a user who is already a player of the lobby, with no other
\* request served meanwhile, succeeds and changes nothing but that player's
\* connected flag, which becomes true.
C13_JoinIdempotent ==
    [][\A p \in Procs :
          (JoinReturns(p) /\ lobby.exists /\ IsPlayer(lobby, req'[p].user)) =>
              /\ res'[p] = "ok"
              /\ lobby' = SetPlayerField(lobby, req'[p].user, "connected", TRUE)]_vars

\* ------------------------------------------------------------------ C14
\* C14: on a full lobby (len(players) = max_players), with no other request
\* served meanwhile, a join by a player of the lobby succeeds as a rejoin
\* and a join by anyone else fails and leaves the lobby as it was.
C14_FullLobbyRejoin ==
    [][\A p \in Procs :
          (JoinReturns(p) /\ lobby.exists
             /\ Len(lobby.players) = lobby.max_players) =>
              IF IsPlayer(lobby, req'[p].user)
              THEN /\ res'[p] = "ok"
                   /\ lobby'.players[FirstIdx(lobby', req'[p].user)].connected
              ELSE /\ res'[p] \in {"full", "in_progress"}
                   /\ lobby' = lobby]_vars

\* ------------------------------------------------------------------ C15
SettingsRejectable(l, r) ==
    \/ l.creator_id # r.user
    \/ l.status # "waiting"
    \/ (r.mp # None /\ r.mp < Len(l.players))

\* C15: a settings request, with no other request served meanwhile, of a
\* user who is not the creator, on a lobby that is not waiting, or with
\* max_players below the player count, is rejected: the lobby record is left
\* as it was and nothing is published.
C15_SettingsRejected ==
    [][\A p \in Procs :
          (pc[p] # "done" /\ pc'[p] = "done" /\ req'[p].op = "settings"
             /\ lobby.exists /\ SettingsRejectable(lobby, req'[p])) =>
              /\ res'[p] \in {"forbidden", "started", "invalid"}
              /\ lobby' = lobby
              /\ bus' = bus]_vars

C15_Witness ==
    \E p \in Procs :
        /\ pc[p] = "done" /\ req[p].op = "settings" /\ res[p] = "started"
        /\ req[p].user = lobby.creator_id
        /\ lobby.status = "countdown"

\* ------------------------------------------------------------------ C16
\* C16: in every reachable lobby state difficulty is 1, 2 or 3, max_players
\* is between 2 and 20 and question_timer is between 10 and 120; no
\* operation, update_settings included, stores a value outside these ranges.
C16_SettingsInRange ==
    lobby.exists =>
        /\ lobby.difficulty \in {1, 2, 3}
        /\ lobby.max_players \in 2..20
        /\ lobby.question_timer \in 10..120

\* ------------------------------------------------------------------ C17
CurveMax(curve) == IF curve = "ws" THEN 100 ELSE 1000

CurveFloor(curve) == IF curve = "ws" THEN 0 ELSE 500

OnCurve(curve, timer, t, pts) ==
    /\ CurveFloor(curve) <= pts
    /\ pts <= CurveMax(curve)
    /\ t = 0 => pts = CurveMax(curve)
    /\ t >= timer => pts = CurveFloor(curve)

\* C17: every scored submission earns 0 when incorrect; when correct it
\* earns the maximum of its curve at time_taken = 0, the floor at every
\* time_taken >= question_timer, always a value between floor and maximum,
\* and of two correct submissions the later one never earns more.
C17_ScoringCurve ==
    scored.curve # "" =>
        IF ~scored.is_correct
        THEN scored.p1 = 0 /\ scored.p2 = 0
        ELSE /\ OnCurve(scored.curve, scored.timer, scored.t1, scored.p1)
             /\ OnCurve(scored.curve, scored.timer, scored.t2, scored.p2)
             /\ scored.t1 <= scored.t2 => scored.p1 >= scored.p2

\* ------------------------------------------------------------------ C18
\* C18: no event carries the correct answer of a question before the
\* question_ended event of that question was emitted: an event whose payload
\* holds correct_answer is question_ended itself or comes after it.
C18_NoEarlyCorrectAnswer ==
    [][\A e \in emitted' \ emitted :
          "correct_answer" \in e.fields =>
              \/ e.type = "question_ended"
              \/ QuestionEnded(e.sid, e.qi) \in emitted]_vars

\* ------------------------------------------------------------------ C19
\* C19: no two lobby documents that exist together share a lobby_code, and
\* a create request that reaches the insert stores its lobby under a code
\* that was free, and answers with success.
C19_UniqueFreshCode ==
    [][/\ \A c \in Codes : collection'[c] <= 1
       /\ \A p \in Procs :
             (pc[p] = "create_insert" /\ pc'[p] = "done") =>
                 /\ res'[p] = "created"
                 /\ collection[loc[p].code] = 0
                 /\ collection'[loc[p].code] = 1]_vars

C21_PublishNeverFails ==
    \A p \in Procs :
        (pc[p] = "done" /\ loc[p].pub = "failed") => res[p] = "ok"

\* ------------------------------------------------------------------ C22
\* C22: an auto-fail for a (user_id, question_index) that already has a
\* record, an earlier auto-fail or a real answer, adds no record and changes
\* no score.
C22_AutoFailIdempotent ==
    [][\A p \in Procs :
          (/\ pc[p] # "done"
           /\ pc'[p] = "done"
           /\ req'[p].op \in {"auto_fail", "controller_auto_fail"}
           /\ HasAnswered(session.answers, req'[p].user, req'[p].ql)) =>
              session' = session /\ lobby' = lobby /\ gs' = gs]_vars

\* ------------------------------------------------------------------ C23
\* C23: a game_starting message is not fanned out by the relay but starts
\* one startup task; when that task stores the game state, the state has
\* current_question_index = -1 and a player_scores entry equal to 0 for
\* every player of the lobby, and game_started is emitted with the count.
C23_StartupStoresState ==
    [][\A t \in Tasks :
          /\ (task[t].pc = "none" /\ task'[t].pc = "countdown") =>
                 /\ bus' = Tail(bus)
                 /\ emitted' = emitted
                 /\ \A j \in Tasks \ {t} : task'[j] = task[j]
          /\ (task[t].pc = "store" /\ task'[t].pc = "loop_init") =>
                 /\ gs'.exists
                 /\ gs'.idx = 0 - 1
                 /\ gs'.total = task[t].n
                 /\ \A i \in 1..Len(lobby.players) :
                        /\ HasKey(gs'.scores, lobby.players[i].user_id)
                        /\ DictGet(gs'.scores, lobby.players[i].user_id) = 0
                 /\ GameStarted(t) \in emitted'
                 /\ "total_questions" \in GameStarted(t).fields]_vars

\* ------------------------------------------------------------------ C24
\* C24: a step of the loop inside the phase of question i, a raised
\* exception included, stays in that phase or goes on to the phase of
\* question i+1, and after the last question to Finalize: a failing phase
\* never stops the loop and no phase is skipped.
C24_LoopSurvivesPhaseFailure ==
    [][\A t \in Tasks :
          (task[t].pc \in {"q_fetch", "q_store", "q_wait", "q_end"} /\ task'[t] # task[t]) =>
              \/ /\ task'[t].qi = task[t].qi
                 /\ task'[t].pc \in {"q_store", "q_wait", "q_end"}
              \/ /\ task'[t].qi = task[t].qi + 1
                 /\ task'[t].pc = IF task[t].qi + 1 < task[t].n THEN "q_fetch" ELSE "fin_read"]_vars

C24_Witness ==
    \E t \in Tasks :
        /\ task[t].pc = "ended"
        /\ QuestionStarted(t, 0) \notin emitted
        /\ QuestionStarted(t, 1) \in emitted
        /\ GameEnded(t) \in emitted

\* ------------------------------------------------------------------ C25
AllPlayersAnswered(qi) ==
    /\ gs.exists
    /\ \A i \in 1..Len(lobby.players) :
           HasAnswered(gs.answers, lobby.players[i].user_id, qi)

\* C25: a poll of the answer-collection wait ends the wait when every lobby
\* player has a record for the current question; while some player has
\* none, the wait ends only with the last poll of the timer.
C25_WaitEndsWhenAllAnswered ==
    [][\A t \in Tasks :
          (task[t].pc = "q_wait" /\ task'[t] # task[t]) =>
              IF AllPlayersAnswered(task[t].qi)
              THEN task'[t].pc = "q_end"
              ELSE task'[t].pc = "q_end" => task[t].elapsed + 1 >= PollsPerQuestion]_vars

\* ------------------------------------------------------------------ C26
\* C26: once game_starting was delivered to the relay and a startup task
\* was handed off, the lobby eventually becomes completed and game_ended
\* is eventually emitted.
C26_GameCompletes ==
    (\E t \in Tasks : task[t].pc # "none") ~>
        (lobby.status = "completed" /\ \E t \in Tasks : GameEnded(t) \in emitted)


\* ------------------------------------------------------------------ C27
\* C27: every step in which Finalize fails for a session emits an error
\* event to the lobby, emits no game_ended event and does not leave the
\* lobby completed.
C27_FinalizeFailureSignalled ==
    [][\A t \in Tasks :
          (task[t].pc # "fin_failed" /\ task'[t].pc = "fin_failed") =>
              /\ ErrorEvent(t) \in emitted'
              /\ GameEnded(t) \notin emitted'
              /\ lobby'.status # "completed"]_vars


\* ------------------------------------------------------------------ C29
\* C29: once Finalize has read the final scores of a session, no step
\* changes player_scores or player_answers of the game state.
C29_NoSubmissionAfterFinalScores ==
    [][(\E t \in Tasks : task[t].pc \in {"fin_post", "ended"}) =>
          /\ gs'.scores = gs.scores
          /\ gs'.answers = gs.answers]_vars


\* ------------------------------------------------------------------ C30
\* C30: in every step in which a Finalize call reports xp_awarded, the
\* stored XP of every reported player grows by exactly the XP reported for
\* that player, the first rank with its bonus included.
C30_ReportedXpIsAwardedXp ==
    [][Len(finalized') = Len(finalized) + 1 =>
          LET aw == finalized'[Len(finalized')]
          IN  \A i \in 1..Len(aw) :
                  xp'[aw[i].user_id].experience - xp[aw[i].user_id].experience = aw[i].xp]_vars


\* ------------------------------------------------------------------ C28
Arrivals == [i \in 1..chat.arrived |-> i]

=============================================================================
